---- MODULE Spec2Model ----
(***************************************************************************)
(* Budget edge worker: service-account token acquisition and caching, the  *)
(* read-through list cache with explicit flush, and the HTTP handlers.     *)
(*                                                                         *)
(* The repository holds three drafts of the same worker:                   *)
(*   "index"  src/src/index.ts      Hono app, google-auth JWT client, no   *)
(*                                  token cache of its own                 *)
(*   "kv"     src/unnamed/part_000  Hono app, token cached in the KV store *)
(*   "mem"    src/unnamed/part_001  plain fetch handler, token cached in a *)
(*                                  module-level variable                  *)
(* The variable draft says which of them is deployed.                      *)
(*                                                                         *)
(* Time: clock counts whole seconds.  Date.now() is clock * 1000 (ms).     *)
(***************************************************************************)
EXTENDS Integers, Sequences, FiniteSets, TLC

\* ------------------------------------------------------------- bounds
NumTasks == 2        \* token calls / HTTP requests, all of which may overlap
NumListTasks == 3    \* /lists and /flush-cache requests, NumTasks of them at a time
MaxClock == 4

\* ------------------------------------------------------------- constants of the code
MARGIN_S == 60
MARGIN_MS == 60000
DEFAULT_LIFETIME_MS == 3600000
LIST_TTL_S == 86400
MIN_TTL_S == 1

Drafts == {"index", "kv", "mem"}
Tasks == 1..(IF NumTasks >= NumListTasks THEN NumTasks ELSE NumListTasks)

\* JavaScript values that are not numbers or token strings.
EmptyStr == 0      \* the token '' of the initial in-memory cache
Undefined == -1    \* a property the response body does not have
NaN == -2          \* now + undefined

\* What the token endpoint can report as expires_in (seconds).
ExpiresIn == {1, 62, 3600}

\* How the token endpoint can answer one exchange.
RespKinds == {"ok", "status", "notoken", "noexpiry", "garbled"}

LIST_CACHE_KEY == "lists"
TOKEN_CACHE_KEY == "token-v1"
NoEntry == [present |-> FALSE]

VARIABLES
    draft,        \* which draft is deployed
    clock,        \* wall clock, seconds
    tokenCache,   \* mem: the module-level { token, exp }
    jwtClient,    \* index, kv: whether the module-level JWT client has been made
    kv,           \* the KV namespace LIST_CACHE: key -> entry
    issued,       \* tokens the endpoint has issued so far
    kind,         \* per task: what it runs
    pc,           \* per task: where it is suspended
    tk,           \* per task: locals and history of its accessToken call
    config,       \* which configuration values the deployment has
    rq            \* per task: the HTTP request it serves, its locals and its history

vars == <<draft, clock, tokenCache, jwtClient, kv, issued, kind, pc, tk, config, rq>>

\* ------------------------------------------------------------- JavaScript helpers
Truthy(tok) == tok # EmptyStr /\ tok # Undefined

\* a < b - m on numbers; any comparison with NaN or undefined is false
LessMinus(a, b, m) == b # NaN /\ b # Undefined /\ a < b - m

\* now + x
Plus(a, x) == IF x = Undefined \/ x = NaN THEN NaN ELSE a + x

Max(a, b) == IF a >= b THEN a ELSE b

DateNow == clock * 1000

\* ------------------------------------------------------------- the token endpoint
\* The body the endpoint sends for an answer of kind k: access_token, expires_in.
RespBody(k, tok, e) ==
    CASE k = "ok"       -> [access_token |-> tok, expires_in |-> e]
      [] k = "noexpiry" -> [access_token |-> tok, expires_in |-> Undefined]
      [] OTHER          -> [access_token |-> Undefined, expires_in |-> Undefined]

\* ------------------------------------------------------------- KV store
\* get: the entry under key, NoEntry (null) once its TTL has run out
KvGet(key) ==
    IF kv[key].present /\ clock < kv[key].expiresAt THEN kv[key] ELSE NoEntry

\* The write is acknowledged but nothing is stored.
KvPut_Dropped(key, value, ttl) == kv

KvPut(key, value, ttl) ==
    [kv EXCEPT ![key] = [present |-> TRUE, value |-> value, expiresAt |-> clock + ttl]]

\* The delete is acknowledged but the entry stays.
KvDelete_Kept(key) == kv

KvDelete(key) == [kv EXCEPT ![key] = NoEntry]

\* ------------------------------------------------------------- requests
\* "complete": every value is set; "noTab": PURPOSE_TAB or ACCOUNT_TAB is not;
\* "noSheet": SHEET_ID (or another value the list handler does not name) is not.
Configs == {"complete", "noTab", "noSheet"}

\* GET /lists, POST /add, POST /flush-cache, GET /, anything else
Routes == {"lists", "add", "flush", "root", "other"}

Missing == "<undefined>"

ValidBody ==
    [json |-> TRUE, date |-> "2024-01-05", amount |-> "12.5", currency |-> "USD",
     description |-> "Coffee", purpose |-> "Food", account |-> "Checking"]

\* The bodies a client sends to /add; json = FALSE is a body that is not JSON.
Bodies ==
    { ValidBody,
      [ValidBody EXCEPT !.amount = "0"],
      [ValidBody EXCEPT !.amount = Missing],
      [ValidBody EXCEPT !.date = Missing],
      [ValidBody EXCEPT !.date = "2024-01-05T23:30:00-05:00"],
      [ValidBody EXCEPT !.date = "yesterday"],
      [ValidBody EXCEPT !.account = Missing],
      [ValidBody EXCEPT !.json = FALSE] }

NoField == [has |-> FALSE, items |-> <<>>]
NoPayload == [purposes |-> NoField, accounts |-> NoField]

\* A backend answer that is not a success.
NoAnswer == [ok |-> FALSE, hasRanges |-> FALSE, valueRanges |-> <<>>]

\* getFailed, delFailed: the cache read / delete of the request rejected;
\* found: the entry was there when the flush deleted it; sheet, res: what the
\* backend answered to batchGet and what batchGet returned for it.
NoRequest ==
    [route |-> "none", keyOk |-> FALSE, body |-> ValidBody, after |-> {}, landed |-> {},
     status |-> 0, out |-> NoPayload, hit |-> FALSE, sawWriter |-> 0,
     bgets |-> 0, appends |-> 0, kvops |-> 0, puts |-> 0,
     cells |-> <<>>, answer |-> "none", payload |-> NoPayload, put |-> "none",
     getFailed |-> FALSE, delFailed |-> FALSE, found |-> FALSE,
     sheet |-> NoAnswer, res |-> <<>>]

\* ------------------------------------------------------------- initial state
NoCall ==
    [now |-> 0, token |-> Undefined, exp |-> NaN, retAt |-> -1, hit |-> FALSE,
     checked |-> FALSE, sawToken |-> Undefined, sawExp |-> NaN,
     resp |-> "none", stored |-> FALSE, exch |-> 0, after |-> {},
     state |-> "none", expiry |-> 0, ttl |-> 0]

InitCommon ==
    /\ draft \in Drafts
    /\ clock = 0
    /\ tokenCache = [token |-> EmptyStr, exp |-> 0]
    /\ jwtClient = [created |-> FALSE]
    /\ kv = [k \in {LIST_CACHE_KEY, TOKEN_CACHE_KEY} |-> NoEntry]
    /\ issued = 0
    /\ kind = [t \in Tasks |-> "none"]
    /\ pc = [t \in Tasks |-> "idle"]
    /\ tk = [t \in Tasks |-> NoCall]
    /\ rq = [t \in Tasks |-> NoRequest]

\* A deployment with every configuration value set.
Init == InitCommon /\ config = "complete"

\* Any deployment, complete or not.
InitHttp == InitCommon /\ config \in Configs

\* ------------------------------------------------------------- accessToken
\* Tasks whose accessToken call has ended (returned or thrown).
Ended == {u \in Tasks : tk[u].state \in {"returned", "threw"}}

\* The comparison turned round: a token is reused only once it is past the margin.
MemCacheFresh_Reversed(now, tc) == Truthy(tc.token) /\ ~LessMinus(now, tc.exp, MARGIN_S)

\* part_001: tokenCache.token && now < tokenCache.exp - 60
MemCacheFresh(now, tc) == Truthy(tc.token) /\ LessMinus(now, tc.exp, MARGIN_S)

\* part_000: cached && now < cached.expiry - 60000
KvCacheFresh(now, cached) ==
    cached.present /\ LessMinus(now, cached.value.expiry, MARGIN_MS)

\* part_000: jwtClient.credentials.expiry_date ?? now + 3600 * 1000
KvExpiry(now, expiry_date) ==
    IF expiry_date = Undefined THEN now + DEFAULT_LIFETIME_MS ELSE expiry_date

\* part_000: Math.max(Math.floor((expiry - now) / 1000), 1)
KvTtl(now, expiry) == Max((expiry - now) \div 1000, MIN_TTL_S)

\* part_001: exp: now + resp.expires_in
MemExp(now, expires_in) == Plus(now, expires_in)

\* The call of task t returns token tok; expS is the expiry recorded for it (s).
Returns(t, tok, expS, extra) ==
    /\ pc' = [pc EXCEPT ![t] = "at_ret"]
    /\ tk' = [tk EXCEPT ![t] =
                [extra EXCEPT !.token = tok, !.exp = expS, !.retAt = clock,
                              !.state = "returned"]]

Throws(t, extra) ==
    /\ pc' = [pc EXCEPT ![t] = "at_throw"]
    /\ tk' = [tk EXCEPT ![t] = [extra EXCEPT !.state = "threw"]]

\* The synchronous head of accessToken, up to its first await.
TokBegin(t) ==
    /\ pc[t] = "at_call"
    /\ LET began == [tk[t] EXCEPT !.state = "running", !.after = Ended] IN
       CASE draft = "mem" ->
              LET now == DateNow \div 1000
                  c == [began EXCEPT !.now = now, !.checked = TRUE,
                                     !.sawToken = tokenCache.token,
                                     !.sawExp = tokenCache.exp]
              IN  /\ IF MemCacheFresh(now, tokenCache)
                        THEN Returns(t, tokenCache.token, tokenCache.exp,
                                     [c EXCEPT !.hit = TRUE])
                        ELSE /\ pc' = [pc EXCEPT ![t] = "at_import"]
                             /\ tk' = [tk EXCEPT ![t] = c]
                  /\ UNCHANGED jwtClient
         [] draft = "kv" ->
              /\ pc' = [pc EXCEPT ![t] = "at_kvget"]
              /\ tk' = [tk EXCEPT ![t] = [began EXCEPT !.now = DateNow]]
              /\ UNCHANGED jwtClient
         [] draft = "index" ->
              /\ pc' = [pc EXCEPT ![t] = "at_authorize"]
              /\ tk' = [tk EXCEPT ![t] = began]
              /\ jwtClient' = [jwtClient EXCEPT !.created = TRUE]
    /\ UNCHANGED <<draft, config, rq, clock, tokenCache, kv, issued, kind>>

\* part_000: the KV read of the cached token resolves, or rejects.
TokKvGet(t) ==
    /\ pc[t] = "at_kvget"
    /\ \/ Throws(t, tk[t]) /\ UNCHANGED jwtClient
       \/ LET cached == KvGet(TOKEN_CACHE_KEY)
              c == [tk[t] EXCEPT !.checked = TRUE,
                      !.sawToken = IF cached.present THEN cached.value.token ELSE Undefined,
                      !.sawExp = IF cached.present THEN cached.value.expiry \div 1000
                                 ELSE NaN]
          IN  IF KvCacheFresh(tk[t].now, cached)
                 THEN /\ Returns(t, cached.value.token, cached.value.expiry \div 1000,
                                 [c EXCEPT !.hit = TRUE])
                      /\ UNCHANGED jwtClient
                 ELSE /\ pc' = [pc EXCEPT ![t] = "at_authorize"]
                      /\ tk' = [tk EXCEPT ![t] = c]
                      /\ jwtClient' = [jwtClient EXCEPT !.created = TRUE]
    /\ UNCHANGED <<draft, config, rq, clock, tokenCache, kv, issued, kind>>

\* part_001: importPKCS8 resolves, or rejects on key material it cannot parse.
ImportKey(t) ==
    /\ pc[t] = "at_import"
    /\ \E parsed \in BOOLEAN :
         IF parsed
            THEN /\ pc' = [pc EXCEPT ![t] = "at_sign"]
                 /\ tk' = tk
            ELSE Throws(t, tk[t])
    /\ UNCHANGED <<draft, config, rq, clock, tokenCache, jwtClient, kv, issued, kind>>

\* part_001: SignJWT(...).sign resolves and the POST to the endpoint is sent.
Sign(t) ==
    /\ pc[t] = "at_sign"
    /\ pc' = [pc EXCEPT ![t] = "at_post"]
    /\ UNCHANGED <<draft, config, rq, clock, tokenCache, jwtClient, kv, issued, kind, tk>>

\* The answers the endpoint can give to one exchange.
Answers == {<<k, e>> \in RespKinds \X ExpiresIn : k # "ok" => e = 3600}

\* part_001: the POST resolves; r.json(); tokenCache = {...}; return tokenCache.token
Post(t) ==
    /\ pc[t] = "at_post"
    /\ \E a \in Answers :
         LET k == a[1]
             body == RespBody(k, issued + 1, a[2])
             c == [tk[t] EXCEPT !.resp = k, !.exch = @ + 1]
         IN  /\ issued' = IF Truthy(body.access_token) THEN issued + 1 ELSE issued
             /\ IF k = "garbled"
                   THEN /\ Throws(t, c)
                        /\ tokenCache' = tokenCache
                   ELSE LET exp == MemExp(tk[t].now, body.expires_in) IN
                        /\ tokenCache' = [token |-> body.access_token, exp |-> exp]
                        /\ Returns(t, body.access_token, exp, [c EXCEPT !.stored = TRUE])
    /\ UNCHANGED <<draft, config, rq, clock, jwtClient, kv, kind>>

\* index, part_000: jwtClient.authorize() resolves or rejects, and the code reads
\* jwtClient.credentials at once (cred).  The library rejects on a non-success or
\* unparseable answer; its expiry_date is the time of issue plus expires_in, ms.
\* index.ts never reads expiry_date, so no expiry is recorded for its tokens.
Authorize(t) ==
    /\ pc[t] = "at_authorize"
    /\ \E a \in Answers :
         LET k == a[1]
             body == RespBody(k, issued + 1, a[2])
             c == [tk[t] EXCEPT !.resp = k, !.exch = @ + 1]
             cred == [access_token |-> body.access_token,
                      expiry_date |-> IF body.expires_in = Undefined THEN Undefined
                                      ELSE (clock + body.expires_in) * 1000]
         IN  /\ issued' = IF Truthy(body.access_token) THEN issued + 1 ELSE issued
             /\ IF k \in {"status", "garbled"} \/ ~Truthy(cred.access_token)
                   THEN Throws(t, c)
                   ELSE IF draft = "index"
                           THEN Returns(t, cred.access_token, NaN, c)
                           ELSE LET expiry == KvExpiry(tk[t].now, cred.expiry_date) IN
                                /\ pc' = [pc EXCEPT ![t] = "at_kvput"]
                                /\ tk' = [tk EXCEPT ![t] =
                                       [c EXCEPT !.token = cred.access_token,
                                                 !.expiry = expiry,
                                                 !.ttl = KvTtl(tk[t].now, expiry)]]
    /\ UNCHANGED <<draft, config, rq, clock, tokenCache, jwtClient, kv, kind>>

\* part_000: the KV write of the token resolves (return token), or rejects.
TokKvPut(t) ==
    /\ pc[t] = "at_kvput"
    /\ \/ /\ kv' = KvPut(TOKEN_CACHE_KEY,
                          [token |-> tk[t].token, expiry |-> tk[t].expiry], tk[t].ttl)
          /\ Returns(t, tk[t].token, tk[t].expiry \div 1000,
                     [tk[t] EXCEPT !.stored = TRUE])
       \/ /\ kv' = kv
          /\ Throws(t, tk[t])
    /\ UNCHANGED <<draft, config, rq, clock, tokenCache, jwtClient, issued, kind>>

\* ------------------------------------------------------------- callers and time
\* A caller asks for a token (batchGet and appendRow begin this way).
StartToken(t) ==
    /\ pc[t] = "idle" /\ t <= NumTasks
    /\ \A u \in Tasks : u < t => pc[u] # "idle"
    /\ kind' = [kind EXCEPT ![t] = "token"]
    /\ pc' = [pc EXCEPT ![t] = "at_call"]
    /\ UNCHANGED <<draft, config, rq, clock, tokenCache, jwtClient, kv, issued, tk>>

Tick ==
    /\ clock < MaxClock
    /\ clock' = clock + 1
    /\ UNCHANGED <<draft, config, rq, tokenCache, jwtClient, kv, issued, kind, pc, tk>>

NextToken ==
    \/ Tick
    \/ \E t \in Tasks : StartToken(t)
    \/ \E t \in Tasks : TokBegin(t)
    \/ \E t \in Tasks : TokKvGet(t)
    \/ \E t \in Tasks : ImportKey(t)
    \/ \E t \in Tasks : Sign(t)
    \/ \E t \in Tasks : Post(t)
    \/ \E t \in Tasks : Authorize(t)
    \/ \E t \in Tasks : TokKvPut(t)

SpecToken == Init /\ [][NextToken]_vars


\* ------------------------------------------------------------- middleware
\* index.ts:78-87, part_000:91-94: some required value is missing
ConfigGate(d, cfg) == d \in {"index", "kv"} /\ cfg # "complete"

\* The key test left out.
KeyGate_Absent(d, route, keyOk) == FALSE

\* index.ts:93-99, part_000:96: the key is tested on every path but "/";
\* part_001:15: on every path
KeyGate(d, route, keyOk) ==
    IF d = "mem" THEN ~keyOk ELSE route # "root" /\ ~keyOk

\* Every path that has no handler answered like "/".
Gate_AllFound(d, cfg, route, keyOk) ==
    IF ConfigGate(d, cfg) THEN 500
    ELSE IF KeyGate(d, route, keyOk) THEN 403
    ELSE IF route \in {"lists", "add", "flush"} THEN 0
    ELSE 200

\* The status the middleware and the router answer with, 0 when a handler runs.
Gate(d, cfg, route, keyOk) ==
    IF ConfigGate(d, cfg) THEN 500
    ELSE IF KeyGate(d, route, keyOk) THEN 403
    ELSE IF route \in {"lists", "add", "flush"} THEN 0
    ELSE IF route = "root" /\ d # "mem" THEN 200
    ELSE 404

Respond(t, status, r) ==
    /\ pc' = [pc EXCEPT ![t] = "done"]
    /\ rq' = [rq EXCEPT ![t] = [r EXCEPT !.status = status]]

Responded == {u \in Tasks : pc[u] = "done"}

\* A request arrives and runs up to its first await.
Arrives(t, routes, keys) ==
    /\ pc[t] = "idle"
    /\ \A u \in Tasks : u < t => pc[u] # "idle"
    /\ \E route \in routes, keyOk \in keys, body \in Bodies :
         /\ route # "add" => body = ValidBody
         /\ LET g == Gate(draft, config, route, keyOk)
                r == [NoRequest EXCEPT !.route = route, !.keyOk = keyOk, !.body = body,
                         !.after = Responded,
                         !.landed = {u \in Tasks : rq[u].put = "landed"}]
            IN  IF g # 0 THEN Respond(t, g, r)
                ELSE /\ pc' = [pc EXCEPT ![t] =
                                 CASE route = "lists" -> "l_get"
                                   [] route = "add"   -> "a_body"
                                   [] route = "flush" -> "f_del"]
                     /\ rq' = [rq EXCEPT ![t] =
                                 [r EXCEPT !.kvops = IF route = "add" THEN 0 ELSE 1]]
    /\ kind' = [kind EXCEPT ![t] = "http"]
    /\ UNCHANGED <<draft, config, clock, tokenCache, jwtClient, kv, issued, tk>>

\* Any request, with or without the right key.
StartRequest(t) == t <= NumTasks /\ Arrives(t, Routes, BOOLEAN)

\* A request to the list cache with the right key.
StartListRequest(t) ==
    /\ t <= NumListTasks
    /\ Cardinality({u \in Tasks : pc[u] \notin {"idle", "done"}}) < NumTasks
    /\ Arrives(t, {"lists", "flush"}, {TRUE})

\* A request to the list cache with the right key, once no other is in flight.
StartNextRequest(t) ==
    /\ t <= NumListTasks
    /\ \A u \in Tasks : pc[u] \in {"idle", "done"}
    /\ Arrives(t, {"lists", "flush"}, {TRUE})

\* An exception leaves accessToken: the handler's catch (index.ts, part_000) or
\* the runtime (part_001) answers 500.
Caught(t) ==
    /\ pc[t] = "at_throw" /\ kind[t] = "http"
    /\ Respond(t, 500, rq[t])
    /\ UNCHANGED <<draft, config, clock, tokenCache, jwtClient, kv, issued, kind, tk>>

\* ------------------------------------------------------------- POST /flush-cache
FlushDone(t) ==
    /\ pc[t] = "f_del"
    /\ \/ /\ kv' = KvDelete(LIST_CACHE_KEY)
          /\ Respond(t, 200, [rq[t] EXCEPT !.found = KvGet(LIST_CACHE_KEY).present])
       \/ /\ kv' = kv
          /\ Respond(t, 500, [rq[t] EXCEPT !.delFailed = TRUE])
    /\ UNCHANGED <<draft, config, clock, tokenCache, jwtClient, issued, kind, tk>>

\* ------------------------------------------------------------- batchGet
Blank == {"", " ", "  "}

\* s.trim() !== ''
NonBlank(c) == c \notin Blank

\* Boolean(s)
NonEmpty(c) == c # ""

\* values.flat()
RECURSIVE Flat(_)
Flat(rows) == IF rows = <<>> THEN <<>> ELSE Head(rows) \o Flat(Tail(rows))

Column(cells) == [i \in 1..Len(cells) |-> <<cells[i]>>]
Range(cells) == [hasValues |-> TRUE, values |-> Column(cells)]
NoValues == [hasValues |-> FALSE, values |-> <<>>]

Answer(ranges) == [ok |-> TRUE, hasRanges |-> TRUE, valueRanges |-> ranges]

\* What the spreadsheet backend can answer to values:batchGet.
SheetAnswers ==
    { NoAnswer,
      [ok |-> TRUE, hasRanges |-> FALSE, valueRanges |-> <<>>],
      Answer(<<Range(<<"Food", "", "  ", "Rent">>), Range(<<"Checking">>)>>),
      Answer(<<Range(<<"Rent">>), Range(<<"Cash", "">>)>>),
      Answer(<<Range(<<"Food">>), NoValues>>),
      Answer(<<Range(<<"Food">>)>>) }

\* index.ts:55, part_000:66: v.values?.flat().filter(s => s.trim() !== '') ?? []
RangeItems(v) == IF v.hasValues THEN SelectSeq(Flat(v.values), NonBlank) ELSE <<>>

\* part_001:104: v.values?.flat() ?? []
RangeItemsMem(v) == IF v.hasValues THEN Flat(v.values) ELSE <<>>

\* The string[][] batchGet returns for an ok answer to a request of n ranges.
BatchGetResult(d, ans, n) ==
    IF d = "mem"
       THEN IF ~ans.ok \/ ~ans.hasRanges THEN [i \in 1..n |-> <<>>]
            ELSE [i \in 1..Len(ans.valueRanges) |-> RangeItemsMem(ans.valueRanges[i])]
       ELSE IF ~ans.hasRanges THEN [i \in 1..n |-> <<>>]
            ELSE [i \in 1..Len(ans.valueRanges) |-> RangeItems(ans.valueRanges[i])]

\* index.ts:49-52, part_000:61-64 throw on a non-success answer; part_001 does not.
BatchGetThrows(d, ans) == d # "mem" /\ ~ans.ok

\* const [purposes, accounts] = ...: element i, undefined beyond the end
Element(res, i) == IF i <= Len(res) THEN [has |-> TRUE, items |-> res[i]] ELSE NoField

\* part_001:35-36: purposes.filter(Boolean)
FilterTruthy(f) == [has |-> TRUE, items |-> SelectSeq(f.items, NonEmpty)]

\* The payload the handler builds from batchGet's result.
Payload(d, res) ==
    IF d = "mem"
       THEN [purposes |-> FilterTruthy(Element(res, 1)),
             accounts |-> FilterTruthy(Element(res, 2))]
       ELSE [purposes |-> Element(res, 1), accounts |-> Element(res, 2)]

\* part_001: .filter is called on undefined when the result is short
PayloadThrows(d, res) == d = "mem" /\ Len(res) < 2

\* ------------------------------------------------------------- GET /lists
\* The read of the list cache resolves (or rejects).
ListsGot(t) ==
    /\ pc[t] = "l_get"
    /\ \/ Respond(t, 500, [rq[t] EXCEPT !.getFailed = TRUE])
       \/ LET cached == KvGet(LIST_CACHE_KEY) IN
          IF cached.present
             THEN Respond(t, 200, [rq[t] EXCEPT !.hit = TRUE,
                                                !.out = cached.value.payload,
                                                !.sawWriter = cached.value.writer])
             ELSE IF draft = "mem" /\ config = "noTab"
                     THEN Respond(t, 500, rq[t])
                     ELSE /\ pc' = [pc EXCEPT ![t] = "at_call"]
                          /\ rq' = rq
    /\ UNCHANGED <<draft, config, clock, tokenCache, jwtClient, kv, issued, kind, tk>>

\* batchGet has its token and sends the request to the backend.
BatchGetSend(t) ==
    /\ pc[t] = "at_ret" /\ kind[t] = "http" /\ rq[t].route = "lists"
    /\ pc' = [pc EXCEPT ![t] = "l_fetch"]
    /\ rq' = [rq EXCEPT ![t].bgets = @ + 1]
    /\ UNCHANGED <<draft, config, clock, tokenCache, jwtClient, kv, issued, kind, tk>>

\* The backend refuses a request without a usable token or spreadsheet id.
Refused(t) == ~Truthy(tk[t].token) \/ config = "noSheet"

\* The backend answers; the handler builds the payload, hands the cache write
\* to waitUntil and answers.
BatchGetAnswer(t) ==
    /\ pc[t] = "l_fetch"
    /\ \E ans \in SheetAnswers :
         /\ Refused(t) => ~ans.ok
         /\ LET res == BatchGetResult(draft, ans, 2)
                payload == Payload(draft, res)
                r == [rq[t] EXCEPT !.answer = IF ans.ok THEN "ok" ELSE "fail",
                                   !.sheet = ans,
                                   !.res = IF BatchGetThrows(draft, ans) THEN <<>> ELSE res]
            IN  IF BatchGetThrows(draft, ans) \/ PayloadThrows(draft, res)
                   THEN Respond(t, 500, r)
                   ELSE Respond(t, 200, [r EXCEPT !.payload = payload, !.out = payload,
                                                  !.put = "pending", !.puts = @ + 1,
                                                  !.kvops = @ + 1])
    /\ UNCHANGED <<draft, config, clock, tokenCache, jwtClient, kv, issued, kind, tk>>

\* A failed cache write turned into an error answer.
PutSettles_Fatal(t) ==
    /\ rq[t].put = "pending"
    /\ \/ /\ kv' = KvPut(LIST_CACHE_KEY, [payload |-> rq[t].payload, writer |-> t],
                         LIST_TTL_S)
          /\ rq' = [rq EXCEPT ![t].put = "landed"]
       \/ /\ kv' = kv
          /\ rq' = [rq EXCEPT ![t].put = "failed", ![t].status = 500,
                              ![t].out = NoPayload]
    /\ UNCHANGED <<draft, config, clock, tokenCache, jwtClient, issued, kind, pc, tk>>

\* The cache write handed to waitUntil lands in the store, or fails and is dropped.
PutSettles(t) ==
    /\ rq[t].put = "pending"
    /\ \/ /\ kv' = KvPut(LIST_CACHE_KEY, [payload |-> rq[t].payload, writer |-> t],
                         LIST_TTL_S)
          /\ rq' = [rq EXCEPT ![t].put = "landed"]
       \/ /\ kv' = kv
          /\ rq' = [rq EXCEPT ![t].put = "failed"]
    /\ UNCHANGED <<draft, config, clock, tokenCache, jwtClient, issued, kind, pc, tk>>

\* ------------------------------------------------------------- POST /add
\* !x for a string field
Falsy(x) == x \in {"", Missing}

\* !amount
FalsyNumber(x) == x \in {"0", "", Missing}

InvalidDate == "RangeError"

\* part_000:131: new Date(body.date).toISOString().split('T')[0]
DateNorm(d) ==
    CASE d = "2024-01-05" -> "2024-01-05"
      [] d = "2024-01-05T23:30:00-05:00" -> "2024-01-06"
      [] OTHER -> InvalidDate

\* index.ts:149
RejectsIndex(b) ==
    \/ Falsy(b.date) \/ b.amount = Missing \/ Falsy(b.currency)
    \/ Falsy(b.description) \/ Falsy(b.purpose) \/ Falsy(b.account)

\* part_000:133
RejectsKv(b) ==
    \/ Falsy(DateNorm(b.date)) \/ FalsyNumber(b.amount) \/ Falsy(b.currency)
    \/ Falsy(b.description) \/ Falsy(b.purpose) \/ Falsy(b.account)

\* The cells handed to appendRow.
Cells(d, b) ==
    <<IF d = "kv" THEN DateNorm(b.date) ELSE b.date,
      b.amount, b.currency, b.description, b.purpose, b.account>>

\* The status /add answers before calling appendRow, 0 when it calls it.
AddCheck(d, b) ==
    IF ~b.json THEN 500
    ELSE CASE d = "index" -> IF RejectsIndex(b) THEN 400 ELSE 0
           [] d = "kv"    -> IF DateNorm(b.date) = InvalidDate THEN 500
                             ELSE IF RejectsKv(b) THEN 400 ELSE 0
           [] d = "mem"   -> 0

\* The body has been read.
AddBody(t) ==
    /\ pc[t] = "a_body"
    /\ LET st == AddCheck(draft, rq[t].body) IN
       IF st # 0 THEN Respond(t, st, rq[t])
       ELSE /\ pc' = [pc EXCEPT ![t] = "at_call"]
            /\ rq' = [rq EXCEPT ![t].cells = Cells(draft, rq[t].body)]
    /\ UNCHANGED <<draft, config, clock, tokenCache, jwtClient, kv, issued, kind, tk>>

\* appendRow has its token and sends the row to the backend.
AppendSend(t) ==
    /\ pc[t] = "at_ret" /\ kind[t] = "http" /\ rq[t].route = "add"
    /\ pc' = [pc EXCEPT ![t] = "a_fetch"]
    /\ rq' = [rq EXCEPT ![t].appends = @ + 1]
    /\ UNCHANGED <<draft, config, clock, tokenCache, jwtClient, kv, issued, kind, tk>>

\* index.ts:68-71, part_000:82-85 throw on a non-success answer; part_001:109
\* does not look at the answer.
AppendStatus(d, ok) == IF d = "mem" \/ ok THEN 200 ELSE 500

\* The append made to drop the list cache entry as well.
AppendAnswer_Flushes(t) ==
    /\ pc[t] = "a_fetch"
    /\ \E ok \in BOOLEAN :
         /\ Refused(t) => ~ok
         /\ Respond(t, AppendStatus(draft, ok),
                    [rq[t] EXCEPT !.answer = IF ok THEN "ok" ELSE "fail"])
    /\ kv' = KvDelete(LIST_CACHE_KEY)
    /\ UNCHANGED <<draft, config, clock, tokenCache, jwtClient, issued, kind, tk>>

\* The backend answers the append.
AppendAnswer(t) ==
    /\ pc[t] = "a_fetch"
    /\ \E ok \in BOOLEAN :
         /\ Refused(t) => ~ok
         /\ Respond(t, AppendStatus(draft, ok),
                    [rq[t] EXCEPT !.answer = IF ok THEN "ok" ELSE "fail"])
    /\ UNCHANGED <<draft, config, clock, tokenCache, jwtClient, kv, issued, kind, tk>>

NextHttp ==
    \/ \E t \in Tasks : StartRequest(t)
    \/ \E t \in Tasks : ListsGot(t)
    \/ \E t \in Tasks : BatchGetSend(t)
    \/ \E t \in Tasks : BatchGetAnswer(t)
    \/ \E t \in Tasks : PutSettles(t)
    \/ \E t \in Tasks : FlushDone(t)
    \/ \E t \in Tasks : AddBody(t)
    \/ \E t \in Tasks : AppendSend(t)
    \/ \E t \in Tasks : AppendAnswer(t)
    \/ \E t \in Tasks : Caught(t)
    \/ \E t \in Tasks : TokBegin(t)
    \/ \E t \in Tasks : TokKvGet(t)
    \/ \E t \in Tasks : ImportKey(t)
    \/ \E t \in Tasks : Sign(t)
    \/ \E t \in Tasks : Post(t)
    \/ \E t \in Tasks : Authorize(t)
    \/ \E t \in Tasks : TokKvPut(t)

SpecHttp == InitHttp /\ [][NextHttp]_vars

NextLists ==
    \/ \E t \in Tasks : StartListRequest(t)
    \/ \E t \in Tasks : ListsGot(t)
    \/ \E t \in Tasks : BatchGetSend(t)
    \/ \E t \in Tasks : BatchGetAnswer(t)
    \/ \E t \in Tasks : PutSettles(t)
    \/ \E t \in Tasks : FlushDone(t)
    \/ \E t \in Tasks : Caught(t)
    \/ \E t \in Tasks : TokBegin(t)
    \/ \E t \in Tasks : Authorize(t)

InitLists == Init /\ draft = "index"

\* The list cache of src/src/index.ts under requests that carry the right key.
SpecLists == InitLists /\ [][NextLists]_vars

NextSeq ==
    \/ \E t \in Tasks : StartNextRequest(t)
    \/ \E t \in Tasks : ListsGot(t)
    \/ \E t \in Tasks : BatchGetSend(t)
    \/ \E t \in Tasks : BatchGetAnswer(t)
    \/ \E t \in Tasks : PutSettles(t)
    \/ \E t \in Tasks : FlushDone(t)
    \/ \E t \in Tasks : Caught(t)
    \/ \E t \in Tasks : TokBegin(t)
    \/ \E t \in Tasks : TokKvGet(t)
    \/ \E t \in Tasks : ImportKey(t)
    \/ \E t \in Tasks : Sign(t)
    \/ \E t \in Tasks : Post(t)
    \/ \E t \in Tasks : Authorize(t)
    \/ \E t \in Tasks : TokKvPut(t)

\* The list cache of every draft under requests that carry the right key and
\* come one after the other; their cache writes still land whenever they do.
SpecSeq == Init /\ [][NextSeq]_vars

\* ------------------------------------------------------------- token claims
Returned(t) == tk[t].state = "returned"

\* The drafts that keep a token cache of their own (index.ts leaves caching
\* to the JWT client of google-auth-library).
Caching == {"mem", "kv"}

\* The call of t handed a token with a recorded expiry to its caller.
HandedOut(t) ==
    draft \in Caching /\ Returned(t) /\ Truthy(tk[t].token) /\ tk[t].exp # NaN

\* The call's own reading of the clock, in seconds.
NowS(t) == IF draft = "kv" THEN tk[t].now \div 1000 ELSE tk[t].now

\* C1 (as claimed): every token handed out, cached or fresh, has at least 60 s
\* left before its recorded expiry at the moment it is returned.
C1_HandoutHasMargin ==
    \A t \in Tasks : HandedOut(t) => tk[t].exp - tk[t].retAt >= MARGIN_S

\* C2 (as claimed): no call returns a token whose expiry lies before the
\* current time, whatever the interleaving and the time the awaits take.
C2_NoExpiredHandout ==
    \A t \in Tasks : HandedOut(t) => tk[t].exp >= tk[t].retAt

\* C3 (as claimed): any two calls that return within the validity window of
\* a token return the same token and trigger exactly one exchange together.
C3_AnyTwoCallsOneExchange ==
    \A a, b \in Tasks :
        (a # b /\ HandedOut(a) /\ HandedOut(b)
              /\ tk[a].retAt < tk[a].exp - MARGIN_S
              /\ tk[b].retAt < tk[a].exp - MARGIN_S)
        => (tk[a].token = tk[b].token /\ tk[a].exch + tk[b].exch = 1)

\* No third call overlaps the calls of a and b.
NoThirdCall(a, b) ==
    \A c \in Tasks \ {a, b} :
        tk[c].state = "none" \/ c \in tk[a].after \/ b \in tk[c].after

\* b began after a had returned, and returned more than 60 s before the
\* expiry of the token a returned.
SequentialInWindow(a, b) ==
    /\ a # b
    /\ HandedOut(a) /\ Returned(b)
    /\ a \in tk[b].after
    /\ tk[b].retAt < tk[a].exp - MARGIN_S
    /\ NoThirdCall(a, b)

\* C3 (amended): two calls of which the second begins after the first has
\* returned, and returns more than 60 s before the first token's expiry, with
\* no other call overlapping, return the same token; the second triggers no
\* exchange and the first at most one (exactly one when it missed the cache).
C3_SequentialReuse ==
    \A a, b \in Tasks :
        SequentialInWindow(a, b)
        => /\ tk[b].token = tk[a].token
           /\ tk[b].exch = 0
           /\ tk[a].exch <= 1
           /\ (~tk[a].hit => tk[a].exch = 1)

C3_Witness ==
    \E a, b \in Tasks :
        SequentialInWindow(a, b) /\ tk[a].exch = 1 /\ tk[b].hit

\* C4 (as claimed): a call is served from the cache, with no exchange, exactly
\* when the cache holds a token with at least 60 s of remaining lifetime.
C4_ValidIffAtLeast60 ==
    \A t \in Tasks :
        tk[t].checked
        => /\ tk[t].hit <=> (/\ Truthy(tk[t].sawToken)
                             /\ tk[t].sawExp # NaN
                             /\ tk[t].sawExp - NowS(t) >= MARGIN_S)
           /\ (tk[t].hit => tk[t].exch = 0)

\* C5 (as claimed, for a non-success status, an unparseable body and a body
\* without access_token): the call fails and has stored nothing.
C5_FailedExchangeStoresNothing ==
    \A t \in Tasks :
        (tk[t].resp \in {"status", "notoken", "garbled"}
              /\ tk[t].state \in {"returned", "threw"})
        => (tk[t].state = "threw" /\ ~tk[t].stored)

\* ------------------------------------------------------------- list cache and HTTP claims
Done(t) == pc[t] = "done"

ListsMiss200(a) ==
    rq[a].route = "lists" /\ Done(a) /\ rq[a].status = 200 /\ ~rq[a].hit

\* C6 (as claimed): a /lists request that starts after a /flush-cache has
\* answered 200 is served from the cache only if the entry was written by a
\* request that itself started after that flush had completed.
C6_PostFlushRecomputes ==
    \A l, f \in Tasks :
        (/\ rq[f].route = "flush" /\ Done(f) /\ rq[f].status = 200
         /\ rq[l].route = "lists" /\ f \in rq[l].after /\ rq[l].hit)
        => f \in rq[rq[l].sawWriter].after

\* C7 (as claimed): a miss answered 200 makes one batchGet and one cache
\* write, and a /lists request that starts after it has answered, and is
\* answered 200, makes no backend call and returns the same payload.
C7_SecondCallServedFromCache ==
    \A a, b \in Tasks :
        ListsMiss200(a)
        => /\ rq[a].bgets = 1 /\ rq[a].puts = 1
           /\ (/\ a # b /\ rq[b].route = "lists" /\ a \in rq[b].after
               /\ Done(b) /\ rq[b].status = 200)
              => (rq[b].bgets = 0 /\ tk[b].exch = 0 /\ rq[b].out = rq[a].out)

\* Request c does not touch the list cache between the write of a and the
\* read of b.
Quiet(c, a, b) ==
    \/ pc[c] = "idle"
    \/ rq[c].route \notin {"lists", "flush"}
    \/ (Done(c) /\ rq[c].kvops = 0)
    \/ b \in rq[c].after
    \/ (c \in rq[a].after /\ rq[c].put \in {"none", "failed"})
    \/ c \in rq[a].landed

\* b started once the cache write of the miss a had landed, nothing else
\* touched the list cache in between, and b was answered 200.
WarmSecondCall(a, b) ==
    /\ a # b /\ ListsMiss200(a)
    /\ rq[b].route = "lists" /\ a \in rq[b].landed
    /\ Done(b) /\ rq[b].status = 200
    /\ \A c \in Tasks \ {a, b} : Quiet(c, a, b)

\* C7 (amended): a miss answered 200 makes exactly one batchGet and hands
\* exactly one cache write to waitUntil; a /lists request that starts after
\* that write has landed (no flush or other write in between, TTL not run
\* out) and is answered 200 is served from the cache: no batchGet, no token
\* acquisition, no further cache write, the same payload.
C7_WarmAfterWriteLanded ==
    \A a, b \in Tasks :
        /\ ListsMiss200(a) => (rq[a].bgets = 1 /\ rq[a].puts = 1 /\ tk[a].exch <= 1)
        /\ WarmSecondCall(a, b)
           => /\ rq[b].hit /\ rq[b].out = rq[a].out
              /\ rq[b].bgets = 0 /\ rq[b].puts = 0 /\ rq[b].appends = 0
              /\ tk[b].state = "none" /\ tk[b].exch = 0

C7_Witness ==
    \E a, b \in Tasks :
        WarmSecondCall(a, b) /\ rq[b].hit /\ rq[a].out.purposes.items = <<"Food", "Rent">>

\* The request of t has made no backend or cache call at all.
NoBackendCall(t) ==
    /\ tk[t].state = "none" /\ tk[t].exch = 0
    /\ rq[t].bgets = 0 /\ rq[t].appends = 0
    /\ rq[t].kvops = 0 /\ rq[t].puts = 0 /\ rq[t].put = "none"

WrongKey(t) == rq[t].route \in {"lists", "add", "flush"} /\ ~rq[t].keyOk

\* C8 (as claimed): a request to /lists, /add or /flush-cache with a missing
\* or wrong key is answered 403 and makes no backend or cache call.
C8_WrongKeyIs403 ==
    \A t \in Tasks : WrongKey(t) => (Done(t) /\ rq[t].status = 403 /\ NoBackendCall(t))

\* C8 (amended): with complete configuration such a request is answered 403;
\* with a configuration value missing index.ts and part_000 answer 500
\* instead; in both cases it makes no backend or cache call.
C8_WrongKeyRejected ==
    \A t \in Tasks :
        WrongKey(t)
        => /\ Done(t) /\ NoBackendCall(t)
           /\ rq[t].status \in {403, 500}
           /\ (config = "complete" \/ draft = "mem") => rq[t].status = 403

C8_Witness ==
    \E t \in Tasks :
        WrongKey(t) /\ config = "complete" /\ Done(t) /\ rq[t].status = 403
                    /\ rq[t].route = "lists"

\* A body with every field present and valid: an ISO calendar date without a
\* time component, a numeric amount (0 included), non-empty strings.
BodyValid(b) ==
    /\ b.json /\ b.date = "2024-01-05" /\ b.amount \in {"12.5", "0"}
    /\ ~Falsy(b.currency) /\ ~Falsy(b.description)
    /\ ~Falsy(b.purpose) /\ ~Falsy(b.account)

\* A POST /add that passed the configuration and key checks with a JSON body.
AddAdmitted(t) ==
    rq[t].route = "add" /\ rq[t].keyOk /\ config = "complete" /\ rq[t].body.json

\* C9 (as claimed): a body that lacks amount, or lacks or has an invalid
\* value for another field, is answered 400 and nothing is appended; a valid
\* body (amount 0 included) is not answered 400.
C9_InvalidBodyIs400 ==
    \A t \in Tasks :
        AddAdmitted(t)
        => /\ ~BodyValid(rq[t].body)
              => (rq[t].appends = 0 /\ (Done(t) => rq[t].status = 400))
           /\ (BodyValid(rq[t].body) /\ Done(t)) => rq[t].status # 400

\* No upstream call of the request got a failing answer.
UpstreamHealthy(t) ==
    /\ tk[t].resp \in {"none", "ok"} /\ tk[t].state # "threw"
    /\ rq[t].answer \in {"none", "ok"}

\* C10 (as claimed, with the backend answering every call successfully): a
\* POST /add with a valid key and a valid body makes exactly one append, with
\* the cells [date, amount, currency, description, purpose, account] as sent,
\* and is answered 200.
C10_ValidAddAppendsOnce ==
    \A t \in Tasks :
        (AddAdmitted(t) /\ BodyValid(rq[t].body) /\ Done(t) /\ UpstreamHealthy(t))
        => /\ rq[t].status = 200
           /\ rq[t].appends = 1
           /\ rq[t].cells = <<rq[t].body.date, rq[t].body.amount, rq[t].body.currency,
                              rq[t].body.description, rq[t].body.purpose,
                              rq[t].body.account>>

\* ------------------------------------------------------------- failures and the cache
\* C11 (as claimed): when the backend answers the append with a non-success
\* response, /add is answered 500 and the append was attempted exactly once.
C11_AppendFailureIs500 ==
    \A t \in Tasks :
        (rq[t].route = "add" /\ Done(t) /\ rq[t].appends > 0 /\ rq[t].answer = "fail")
        => (rq[t].status = 500 /\ rq[t].appends = 1)

\* C12 (as claimed): a /lists request whose cache read failed still goes to
\* the backend and is answered 200 when the backend answers; a failed cache
\* write leaves the answer 200 with the computed payload; a failed delete in
\* /flush-cache is answered 500.
C12_CacheFailureNotFatal ==
    \A t \in Tasks :
        /\ (rq[t].route = "lists" /\ Done(t) /\ rq[t].getFailed)
           => (rq[t].bgets = 1 /\ (UpstreamHealthy(t) => rq[t].status = 200))
        /\ (rq[t].route = "lists" /\ rq[t].put = "failed")
           => (Done(t) /\ rq[t].status = 200 /\ rq[t].out = rq[t].payload)
        /\ (rq[t].route = "flush" /\ Done(t) /\ rq[t].delFailed) => rq[t].status = 500

\* C13: while and after the cache write of a miss is pending, the request has
\* been answered 200 with the computed payload, and no step (the write
\* landing, failing, or never settling) alters that answer.
C13_AnswerIndependentOfPut ==
    [][\A t \in Tasks :
          rq[t].put # "none"
          => /\ Done(t) /\ rq[t].status = 200 /\ rq[t].out = rq[t].payload
             /\ pc'[t] = "done" /\ rq'[t].status = 200 /\ rq'[t].out = rq[t].out]_vars

\* Two misses answered alike, the write of one landed and of the other failed.
C13_Witness ==
    \E a, b \in Tasks :
        /\ ListsMiss200(a) /\ ListsMiss200(b)
        /\ rq[a].put = "landed" /\ rq[b].put = "failed"
        /\ rq[a].out = rq[b].out /\ rq[a].out.purposes.items = <<"Food", "Rent">>

\* The cell values of a backend column that are neither empty nor
\* whitespace-only, in their order.
Kept(v) == SelectSeq(Flat(v.values), NonBlank)

\* The backend answered batchGet with one column for each of the two ranges.
TwoColumns(ans) == ans.ok /\ ans.hasRanges /\ Len(ans.valueRanges) = 2

\* C14 (as claimed): for every pair of backend columns the payload of a miss,
\* returned and handed to the cache, holds in purposes and in accounts exactly
\* the non-blank cell values of the respective column, in their order.
C14_PayloadIsFilteredColumns ==
    \A t \in Tasks :
        (ListsMiss200(t) /\ TwoColumns(rq[t].sheet))
        => /\ rq[t].out.purposes = [has |-> TRUE, items |-> Kept(rq[t].sheet.valueRanges[1])]
           /\ rq[t].out.accounts = [has |-> TRUE, items |-> Kept(rq[t].sheet.valueRanges[2])]
           /\ rq[t].payload = rq[t].out

Flushed(t) == rq[t].route = "flush" /\ Done(t)

\* C15 (as claimed): every /flush-cache is answered 200.
C15_FlushNeverErrors == \A t \in Tasks : Flushed(t) => rq[t].status = 200

\* C15 (amended): a flush whose delete the store performs is answered 200 and
\* leaves the entry absent, whether the entry was there or not; on an absent
\* entry it changes nothing in the store, so a second flush in a row leaves
\* the state of the first.  Only a delete the store rejects is answered 500.
C15_FlushIdempotent ==
    [][\A t \in Tasks :
          (pc[t] = "f_del" /\ pc'[t] = "done")
          => IF rq'[t].delFailed
                THEN rq'[t].status = 500 /\ kv' = kv
                ELSE /\ rq'[t].status = 200
                     /\ ~KvGet(LIST_CACHE_KEY)'.present
                     /\ kv'[LIST_CACHE_KEY] = NoEntry
                     /\ (kv[LIST_CACHE_KEY] = NoEntry => kv' = kv)]_vars

\* Two flushes in a row, the first on a filled cache, the second on the
\* cache it left empty.
C15_Witness ==
    \E a, b \in Tasks :
        /\ Flushed(a) /\ Flushed(b) /\ a \in rq[b].after
        /\ rq[a].status = 200 /\ rq[b].status = 200
        /\ rq[a].found /\ ~rq[b].found
        /\ kv[LIST_CACHE_KEY] = NoEntry

\* ------------------------------------------------------------- configuration and routing
Arrived(t) == kind[t] = "http"

\* C16 (as claimed): with a required configuration value missing, every
\* request, whatever its path and key, is answered 500 and makes no backend
\* or cache call.
C16_MisconfiguredIs500 ==
    \A t \in Tasks :
        (Arrived(t) /\ config # "complete")
        => (Done(t) /\ rq[t].status = 500 /\ NoBackendCall(t))

Unmatched(t) == Arrived(t) /\ rq[t].route = "other"

KeptColumn(ans, i) ==
    [has |-> TRUE,
     items |-> IF ans.hasRanges /\ i <= Len(ans.valueRanges)
                  THEN Kept(ans.valueRanges[i]) ELSE <<>>]

\* The complete filtered payload of one successful batchGet answer.
CompletePayload(ans) ==
    [purposes |-> KeptColumn(ans, 1), accounts |-> KeptColumn(ans, 2)]

\* C18 (as claimed): the list cache entry is at every moment absent or the
\* complete filtered payload of one single successful batchGet answer (the
\* answer its writer got).
C18_EntryIsCompletePayload ==
    kv[LIST_CACHE_KEY].present
    => LET entry == kv[LIST_CACHE_KEY].value
           ans == rq[entry.writer].sheet
       IN  ans.ok /\ entry.payload = CompletePayload(ans)

\* C19 (as claimed): for every successful backend answer batchGet returns one
\* result sequence for each of the two requested ranges, the i-th holding the
\* values of the i-th column of the answer (none when the answer lacks it).
C19_OneResultPerRange ==
    \A t \in Tasks :
        (rq[t].route = "lists" /\ rq[t].answer = "ok")
        => /\ Len(rq[t].res) = 2
           /\ \A i \in 1..Len(rq[t].res) :
                SelectSeq(rq[t].res[i], NonBlank) = KeptColumn(rq[t].sheet, i).items

\* C20 (as claimed): a miss hands a payload to the cache only when its token
\* acquisition and its batchGet succeeded, and no request is served from the
\* cache a payload that was built from a failed batchGet.
C20_PutOnlyAfterSuccess ==
    \A t \in Tasks :
        /\ rq[t].puts > 0
           => (Returned(t) /\ Truthy(tk[t].token) /\ rq[t].sheet.ok)
        /\ (rq[t].route = "lists" /\ rq[t].hit) => rq[rq[t].sawWriter].sheet.ok

\* ------------------------------------------------------------- frame of the list cache
\* The step is the landing of the cache write of a /lists miss.
PutLands(t) == rq[t].route = "lists" /\ rq[t].put = "pending" /\ rq'[t].put = "landed"

\* The step is the delete of a /flush-cache.
FlushDeletes(t) == rq[t].route = "flush" /\ pc[t] = "f_del" /\ pc'[t] = "done"

\* The step is one of the /add request of t.
AddSteps(t) == rq'[t].route = "add" /\ (pc'[t] # pc[t] \/ rq'[t] # rq[t] \/ tk'[t] # tk[t])

\* C21: the list cache entry changes only when the cache write of a /lists
\* miss lands or a /flush-cache deletes it; no step of a POST /add, answered
\* 200 or not, changes it; and a /flush-cache makes no token acquisition or
\* exchange, no batchGet and no append.
C21_ListEntryFrame ==
    [][/\ kv'[LIST_CACHE_KEY] # kv[LIST_CACHE_KEY]
          => \E t \in Tasks : PutLands(t) \/ FlushDeletes(t)
       /\ \A t \in Tasks :
            /\ AddSteps(t) => kv'[LIST_CACHE_KEY] = kv[LIST_CACHE_KEY]
            /\ rq'[t].route = "flush"
               => /\ tk'[t].state = "none" /\ tk'[t].exch = 0
                  /\ rq'[t].bgets = 0 /\ rq'[t].appends = 0 /\ rq'[t].puts = 0]_vars

\* A POST /add of part_000, begun after the entry of a miss had landed, has
\* appended its row and been answered; the entry is still the one the miss
\* wrote, next to the token the same store holds under its own key.
C21_Witness ==
    \E a, b \in Tasks :
        /\ draft = "kv" /\ ListsMiss200(a) /\ a \in rq[b].landed
        /\ rq[b].route = "add" /\ Done(b) /\ rq[b].status = 200 /\ rq[b].appends = 1
        /\ kv[LIST_CACHE_KEY].present /\ kv[LIST_CACHE_KEY].value.writer = a
        /\ kv[TOKEN_CACHE_KEY].present

====
